---------------------------- MODULE Spec2Model ----------------------------
(***************************************************************************)
(* Protein-Analyzer: the two Streamlit scripts src/ASG01.py (first         *)
(* variant) and src/app.py (second variant).                               *)
(*                                                                         *)
(* A Python str is modelled as a sequence of one-character strings, so     *)
(* that startswith, split, strip, splitlines, join and int are computed    *)
(* character by character.  A dict is a function whose DOMAIN is the set   *)
(* of keys present.  A raised exception is the value of `exc`.             *)
(***************************************************************************)
EXTENDS Integers, Sequences, FiniteSets, TLC

VARIABLES
    variant,       \* the script that is running: "ASG01" or "app"
    pc,            \* where the script run stands (a blocking call, a return)
    uniprot_id,    \* main: the text input's value
    text,          \* get_protein_data: response.text
    lines,         \* get_protein_data: lines
    exc,           \* the exception propagating out of the run, or "none"
    exc_at,        \* the number of the line whose iteration raised it, or 0
    protein_data,  \* main: protein_data
    ppi_network,   \* main: ppi_network
    pdb_data,      \* display_structure: pdb_data
    calls,         \* the requests.get calls of this run, in order
    ui             \* the Streamlit elements this run has emitted, in order

vars == <<variant, pc, uniprot_id, text, lines, exc, exc_at,
          protein_data, ppi_network, pdb_data, calls, ui>>

(***************************************************************************)
(* Python str primitives                                                   *)
(***************************************************************************)
Whitespace == {" ", "\t", "\n"}

Digits == {"0", "1", "2", "3", "4", "5", "6", "7", "8", "9"}

DigitVal(c) ==
    CASE c = "0" -> 0 [] c = "1" -> 1 [] c = "2" -> 2 [] c = "3" -> 3
      [] c = "4" -> 4 [] c = "5" -> 5 [] c = "6" -> 6 [] c = "7" -> 7
      [] c = "8" -> 8 [] c = "9" -> 9

SetMin(S) == CHOOSE x \in S : \A y \in S : x <= y

SetMax(S) == CHOOSE x \in S : \A y \in S : x >= y

\* s.startswith(p)
startswith(s, p) == Len(s) >= Len(p) /\ SubSeq(s, 1, Len(p)) = p

\* s.find(sep) + 1, and 0 when sep does not occur in s
find(s, sep) ==
    LET hits == {k \in 1..(Len(s) - Len(sep) + 1) :
                    SubSeq(s, k, k + Len(sep) - 1) = sep}
    IN  IF hits = {} THEN 0 ELSE SetMin(hits)

\* s.split(sep): the segments between the non-overlapping occurrences of sep
RECURSIVE split_on(_, _)
split_on(s, sep) ==
    LET k == find(s, sep)
    IN  IF k = 0 THEN <<s>>
        ELSE <<SubSeq(s, 1, k - 1)>>
                 \o split_on(SubSeq(s, k + Len(sep), Len(s)), sep)

\* s.split(): the maximal runs of non-whitespace characters
RECURSIVE split_ws(_)
split_ws(s) ==
    IF s = <<>> THEN <<>>
    ELSE IF Head(s) \in Whitespace THEN split_ws(Tail(s))
    ELSE LET stops == {k \in 1..Len(s) : s[k] \in Whitespace}
             n == IF stops = {} THEN Len(s) ELSE SetMin(stops) - 1
         IN  <<SubSeq(s, 1, n)>> \o split_ws(SubSeq(s, n + 1, Len(s)))

\* s.strip()
strip(s) ==
    LET keep == {k \in 1..Len(s) : s[k] \notin Whitespace}
    IN  IF keep = {} THEN <<>> ELSE SubSeq(s, SetMin(keep), SetMax(keep))

\* " ".join(fields)
RECURSIVE join_sp(_)
join_sp(fields) ==
    IF fields = <<>> THEN <<>>
    ELSE IF Len(fields) = 1 THEN fields[1]
    ELSE fields[1] \o <<" ">> \o join_sp(Tail(fields))

\* text.splitlines(): split at line breaks, no empty last line after a final break
RECURSIVE splitlines(_)
splitlines(t) ==
    IF t = <<>> THEN <<>>
    ELSE LET k == find(t, <<"\n">>)
         IN  IF k = 0 THEN <<t>>
             ELSE <<SubSeq(t, 1, k - 1)>> \o splitlines(SubSeq(t, k + 1, Len(t)))

\* int(tok) succeeds on a non-empty string of decimal digits (tok is a result
\* of split(), so it holds no whitespace; the model's alphabet has no sign or _)
int_ok(tok) == tok # <<>> /\ \A k \in 1..Len(tok) : tok[k] \in Digits

RECURSIVE int_val(_)
int_val(tok) ==
    IF tok = <<>> THEN 0
    ELSE 10 * int_val(SubSeq(tok, 1, Len(tok) - 1)) + DigitVal(tok[Len(tok)])

\* seq[1:]
rest(seq) == IF seq = <<>> THEN <<>> ELSE Tail(seq)

\* [x.strip() for x in seq]
strip_all(seq) == [k \in 1..Len(seq) |-> strip(seq[k])]

(***************************************************************************)
(* Python dict primitives                                                  *)
(***************************************************************************)
EmptyDict == <<>>

\* d[k] = v
put(d, k, v) == [x \in (DOMAIN d) \cup {k} |-> IF x = k THEN v ELSE d[x]]

\* bool(d)
truthy(d) == DOMAIN d # {}

\* d without the keys of ks
without(d, ks) == [x \in (DOMAIN d) \ ks |-> d[x]]

(***************************************************************************)
(* String literals of the two scripts                                      *)
(***************************************************************************)
\* "ID"
PrefixID ==
    <<"I", "D">>

\* "SQ"
PrefixSQ ==
    <<"S", "Q">>

\* "DE   RecName: Full="
PrefixDE ==
    <<"D", "E", " ", " ", " ", "R", "e", "c", "N", "a", "m", "e", ":", " ", "F", "u", "l", "l", "=">>

\* "DR   SUPFAM"
PrefixSUPFAM ==
    <<"D", "R", " ", " ", " ", "S", "U", "P", "F", "A", "M">>

\* "FT   MOD_RES"
PrefixMODRES ==
    <<"F", "T", " ", " ", " ", "M", "O", "D", "_", "R", "E", "S">>

\* "CC   -!- SUBCELLULAR LOCATION:"
PrefixCC ==
    <<"C", "C", " ", " ", " ", "-", "!", "-", " ", "S", "U", "B", "C", "E", "L", "L", "U", "L", "A", "R", " ", "L", "O", "C", "A", "T", "I", "O", "N", ":">>

\* "DR   Reactome"
PrefixReactome ==
    <<"D", "R", " ", " ", " ", "R", "e", "a", "c", "t", "o", "m", "e">>

\* "DR   MIM"
PrefixMIM ==
    <<"D", "R", " ", " ", " ", "M", "I", "M">>

\* "DR   PDB"
PrefixPDB ==
    <<"D", "R", " ", " ", " ", "P", "D", "B">>

\* "DR   AlphaFoldDB"
PrefixAlphaFoldDB ==
    <<"D", "R", " ", " ", " ", "A", "l", "p", "h", "a", "F", "o", "l", "d", "D", "B">>

\* "Full="
FullEq == <<"F", "u", "l", "l", "=">>

\* ";"
Semi == <<";">>

\* "Not available"
NotAvailable ==
    <<"N", "o", "t", " ", "a", "v", "a", "i", "l", "a", "b", "l", "e">>

(***************************************************************************)
(* The result of a block that may raise: exc is "none" or the name of the  *)
(* exception raised, data the dict after the block.                        *)
(***************************************************************************)
Ok(d) == [exc |-> "none", data |-> d]

Raise(e) == [exc |-> e, data |-> EmptyDict]

(***************************************************************************)
(* src/app.py, get_protein_data: the branches of the loop over the lines.  *)
(* Lines are numbered from 1 here: j is Python's i + 1.                    *)
(***************************************************************************)
\* app.py 23-24
set_Name(d, line) ==
    LET fields == split_ws(line)
    IN  Ok(put(d, "Name",
               IF Len(fields) >= 2 THEN join_sp(rest(fields)) ELSE NotAvailable))

\* sq_condition without the check that a next line exists
sq_condition_unguarded(ls, j) == startswith(ls[j], PrefixSQ)

\* app.py 26: line.startswith("SQ") and i + 1 < len(lines)
sq_condition(ls, j) == startswith(ls[j], PrefixSQ) /\ j < Len(ls)

\* set_Weight taking the first token of the next line, not the last
set_Weight_first_token(d, ls, j) ==
    IF j + 1 > Len(ls) THEN Raise("IndexError")
    ELSE LET toks == split_ws(ls[j + 1])
         IN  IF toks = <<>> THEN Raise("IndexError")
             ELSE Ok(put(d, "Weight", toks[1]))

\* app.py 27-29: lines[i + 1] raises IndexError past the end of the list, and
\* weight_line.split()[-1] raises IndexError on a blank line
set_Weight(d, ls, j) ==
    IF j + 1 > Len(ls) THEN Raise("IndexError")
    ELSE LET weight_line == ls[j + 1]
             toks == split_ws(weight_line)
         IN  IF toks = <<>> THEN Raise("IndexError")
             ELSE Ok(put(d, "Weight", toks[Len(toks)]))

\* app.py 32-33: line.split("Full=")[1].split(";")[0]
set_Function(d, line) ==
    LET parts == split_on(line, FullEq)
    IN  IF Len(parts) < 2 THEN Raise("IndexError")
        ELSE Ok(put(d, "Function", split_on(parts[2], Semi)[1]))

\* set_second_field guarded: a line without ";" sets nothing and raises nothing
set_second_field_silent(d, line, key) ==
    LET parts == split_on(line, Semi)
    IN  IF Len(parts) < 2 THEN Ok(d) ELSE Ok(put(d, key, parts[2]))

\* line.split(";")[1], stored under key (app.py 36-37, 52-53, 56-57)
set_second_field(d, line, key) ==
    LET parts == split_on(line, Semi)
    IN  IF Len(parts) < 2 THEN Raise("IndexError")
        ELSE Ok(put(d, key, parts[2]))

\* set_second_field_stripped storing under the key of the branch it was
\* copied from
set_second_field_stripped_wrong_key(d, line, key) ==
    LET parts == split_on(line, Semi)
    IN  IF Len(parts) < 2 THEN Raise("IndexError")
        ELSE Ok(put(d, "Structure", strip(parts[2])))

\* line.split(";")[1].strip(), stored under key (app.py 60-61, 64-65)
set_second_field_stripped(d, line, key) ==
    LET parts == split_on(line, Semi)
    IN  IF Len(parts) < 2 THEN Raise("IndexError")
        ELSE Ok(put(d, key, strip(parts[2])))

\* set_Length_PTMs accumulating the PTMs of every MOD_RES line
set_Length_PTMs_accumulate(d, line) ==
    LET parts == split_ws(line)
        ptms == rest(split_on(line, Semi))
        old == IF "PTMs" \in DOMAIN d THEN d["PTMs"] ELSE <<>>
    IN  IF Len(parts) >= 3 /\ ~int_ok(parts[3]) THEN Raise("ValueError")
        ELSE LET d1 == IF Len(parts) >= 3
                          THEN put(d, "Length", int_val(parts[3])) ELSE d
             IN  Ok(IF ptms # <<>>
                       THEN put(d1, "PTMs", old \o strip_all(ptms)) ELSE d1)

\* app.py 40-45
set_Length_PTMs(d, line) ==
    LET parts == split_ws(line)
        ptms == rest(split_on(line, Semi))
    IN  IF Len(parts) >= 3 /\ ~int_ok(parts[3]) THEN Raise("ValueError")
        ELSE LET d1 == IF Len(parts) >= 3
                          THEN put(d, "Length", int_val(parts[3])) ELSE d
             IN  Ok(IF ptms # <<>> THEN put(d1, "PTMs", strip_all(ptms)) ELSE d1)

\* app.py 48-49
set_Subcellular_Location(d, line) ==
    LET parts == split_on(line, PrefixCC)
    IN  IF Len(parts) < 2 THEN Raise("IndexError")
        ELSE Ok(put(d, "Subcellular Location", strip(parts[2])))

\* app.py 21-65: one iteration of `for i, line in enumerate(lines)`
loop_body_app(d, ls, j) ==
    LET line == ls[j]
    IN  IF startswith(line, PrefixID) THEN set_Name(d, line)
        ELSE IF sq_condition(ls, j) THEN set_Weight(d, ls, j)
        ELSE IF startswith(line, PrefixDE) THEN set_Function(d, line)
        ELSE IF startswith(line, PrefixSUPFAM)
            THEN set_second_field(d, line, "Structure")
        ELSE IF startswith(line, PrefixMODRES) THEN set_Length_PTMs(d, line)
        ELSE IF startswith(line, PrefixCC) THEN set_Subcellular_Location(d, line)
        ELSE IF startswith(line, PrefixReactome)
            THEN set_second_field(d, line, "Pathway")
        ELSE IF startswith(line, PrefixMIM)
            THEN set_second_field(d, line, "Disease")
        ELSE IF startswith(line, PrefixPDB)
            THEN set_second_field_stripped(d, line, "PDB_ID")
        ELSE IF startswith(line, PrefixAlphaFoldDB)
            THEN set_second_field_stripped(d, line, "AlphaFold_ID")
        ELSE Ok(d)

(***************************************************************************)
(* src/ASG01.py, get_protein_data: one iteration of the loop (lines 20-56),*)
(* written out from that file on its own.                                  *)
(***************************************************************************)
loop_body_ASG01(d, ls, j) ==
    LET line == ls[j]
        semi == split_on(line, Semi)
    IN  IF startswith(line, PrefixID)
            THEN LET fields == split_ws(line)
                 IN  Ok(put(d, "Name", IF Len(fields) >= 2
                                          THEN join_sp(rest(fields))
                                          ELSE NotAvailable))
        ELSE IF startswith(line, PrefixSQ) /\ j < Len(ls)
            THEN LET toks == split_ws(ls[j + 1])
                 IN  IF toks = <<>> THEN Raise("IndexError")
                     ELSE Ok(put(d, "Weight", toks[Len(toks)]))
        ELSE IF startswith(line, PrefixDE)
            THEN LET parts == split_on(line, FullEq)
                 IN  IF Len(parts) < 2 THEN Raise("IndexError")
                     ELSE Ok(put(d, "Function", split_on(parts[2], Semi)[1]))
        ELSE IF startswith(line, PrefixSUPFAM)
            THEN IF Len(semi) < 2 THEN Raise("IndexError")
                 ELSE Ok(put(d, "Structure", semi[2]))
        ELSE IF startswith(line, PrefixMODRES)
            THEN LET parts == split_ws(line)
                     ptms == rest(semi)
                 IN  IF Len(parts) >= 3 /\ ~int_ok(parts[3])
                         THEN Raise("ValueError")
                     ELSE LET d1 == IF Len(parts) >= 3
                                       THEN put(d, "Length", int_val(parts[3]))
                                       ELSE d
                          IN  Ok(IF ptms # <<>>
                                    THEN put(d1, "PTMs", strip_all(ptms))
                                    ELSE d1)
        ELSE IF startswith(line, PrefixCC)
            THEN LET parts == split_on(line, PrefixCC)
                 IN  IF Len(parts) < 2 THEN Raise("IndexError")
                     ELSE Ok(put(d, "Subcellular Location", strip(parts[2])))
        ELSE IF startswith(line, PrefixReactome)
            THEN IF Len(semi) < 2 THEN Raise("IndexError")
                 ELSE Ok(put(d, "Pathway", semi[2]))
        ELSE IF startswith(line, PrefixMIM)
            THEN IF Len(semi) < 2 THEN Raise("IndexError")
                 ELSE Ok(put(d, "Disease", semi[2]))
        ELSE Ok(d)

\* the loop body of the script that is running
loop_body(v, d, ls, j) ==
    IF v = "ASG01" THEN loop_body_ASG01(d, ls, j) ELSE loop_body_app(d, ls, j)

(***************************************************************************)
(* `for i, line in enumerate(lines)` from line j on: the dict when the     *)
(* loop ends, or the exception and the line whose iteration raised it.     *)
(***************************************************************************)
RECURSIVE for_lines(_, _, _, _)
for_lines(v, d, ls, j) ==
    IF j > Len(ls) THEN [exc |-> "none", at |-> 0, data |-> d]
    ELSE LET r == loop_body(v, d, ls, j)
         IN  IF r.exc # "none" THEN [exc |-> r.exc, at |-> j, data |-> EmptyDict]
             ELSE for_lines(v, r.data, ls, j + 1)

\* extract starting from a dict that holds a placeholder for the name
extract_with_placeholder(v, id, ls) ==
    for_lines(v, put(put(EmptyDict, "ID", id), "Name", NotAvailable), ls, 1)

\* get_protein_data after a 200 response (app.py 18-67, ASG01.py 17-58)
extract(v, id, ls) == for_lines(v, put(EmptyDict, "ID", id), ls, 1)

(***************************************************************************)
(* get_protein_data (app.py 10-67, ASG01.py 9-58), from the response on    *)
(***************************************************************************)
get_protein_data(v, id, status, t) ==
    IF status # 200
        THEN [ui |-> <<"error:uniprot">>, exc |-> "none", at |-> 0,
              data |-> EmptyDict, text |-> <<>>, lines |-> <<>>]
        ELSE LET ls == splitlines(t)
                 r == extract(v, id, ls)
             IN  [ui |-> <<>>, exc |-> r.exc, at |-> r.at,
                  data |-> r.data, text |-> t, lines |-> ls]

(***************************************************************************)
(* display_protein_characteristics (app.py 72-91, ASG01.py 63-82): the     *)
(* elements written, by label                                              *)
(***************************************************************************)
optional_write(d, key, label) == IF key \in DOMAIN d THEN <<label>> ELSE <<>>

display_protein_characteristics(d) ==
    <<"subheader:Protein Characteristics", "write:UniProt ID", "write:Name",
      "write:Length", "write:Molecular Weight", "write:Function">>
    \o optional_write(d, "Structure", "write:Structure")
    \o optional_write(d, "Subcellular Location", "write:Subcellular Location")
    \o (IF "PTMs" \in DOMAIN d
           THEN <<"write:PTMs">> \o [k \in 1..Len(d["PTMs"]) |-> "write:ptm"]
           ELSE <<>>)
    \o optional_write(d, "Pathway", "write:Pathway Involvement")
    \o optional_write(d, "Disease", "write:Disease Association")

(***************************************************************************)
(* get_ppi_network and display_ppi_network                                 *)
(***************************************************************************)
\* Python's None, where a str (a sequence of characters) may stand: a
\* sequence that is no str, its one element being no single character
None == <<"<None>">>

\* d.get(key), None when the key is absent
dict_get(d, key) == IF key \in DOMAIN d THEN d[key] ELSE None

\* bool(x) of a str or None
str_truthy(x) == x # None /\ x # <<>>

\* app.py 105-111
RECURSIVE interactions_of(_)
interactions_of(data) ==
    IF data = <<>> THEN <<>>
    ELSE LET protein1 == dict_get(Head(data), "preferredName_A")
             protein2 == dict_get(Head(data), "preferredName_B")
         IN  (IF str_truthy(protein1) /\ str_truthy(protein2)
                 THEN <<(<<protein1, protein2>>)>> ELSE <<>>)
             \o interactions_of(Tail(data))

\* app.py 100-111: get_ppi_network from the response on
get_ppi_network_app(status, data) ==
    IF status # 200
        THEN [ui |-> <<"error:string">>, interactions |-> <<>>]
        ELSE [ui |-> <<>>, interactions |-> interactions_of(data)]

\* ASG01.py 88-89
proteins ==
    <<"ProteinA", "ProteinB", "ProteinC", "ProteinD", "ProteinE",
      "ProteinF", "ProteinG", "ProteinH", "ProteinI", "ProteinJ">>

\* ASG01.py 90: [(proteins[i], proteins[j]) for i in range(n) for j in range(i + 1, n)]
RECURSIVE pairs_from(_, _)
pairs_from(i, j) ==
    IF i > Len(proteins) THEN <<>>
    ELSE IF j > Len(proteins) THEN pairs_from(i + 1, i + 2)
    ELSE <<(<<proteins[i], proteins[j]>>)>> \o pairs_from(i, j + 1)

\* ASG01.py 87-91
get_ppi_network_ASG01 == pairs_from(1, 2)

\* app.py 113-142
display_ppi_network_app(interactions) ==
    <<"subheader:Protein-Protein Interaction Network">>
    \o (IF interactions = <<>> THEN <<"warning:no interactions">>
        ELSE <<"pyplot", "markdown:explanation">>)

\* ASG01.py 93-106
display_ppi_network_ASG01(interactions) ==
    <<"subheader:Protein-Protein Interaction Network", "pyplot">>

(***************************************************************************)
(* display_structure (app.py 147-169)                                      *)
(***************************************************************************)
Call(endpoint, arg) == [endpoint |-> endpoint, arg |-> arg, status |-> 0]

\* display_structure_begin with the precedence of the two identifiers swapped
display_structure_begin_af_first(d) ==
    LET pdb_id == dict_get(d, "PDB_ID")
        af_id  == dict_get(d, "AlphaFold_ID")
    IN  IF str_truthy(af_id)
            THEN [ui |-> <<"subheader:3D Structure Viewer", "write:alphafold">>,
                  call |-> <<Call("alphafold", af_id)>>]
        ELSE IF str_truthy(pdb_id)
            THEN [ui |-> <<"subheader:3D Structure Viewer", "write:pdb">>,
                  call |-> <<Call("rcsb", pdb_id)>>]
        ELSE [ui |-> <<"subheader:3D Structure Viewer", "warning:no structure">>,
              call |-> <<>>]

\* display_structure_begin fetching from both endpoints when the record
\* has both identifiers
display_structure_begin_both(d) ==
    LET pdb_id == dict_get(d, "PDB_ID")
        af_id  == dict_get(d, "AlphaFold_ID")
    IN  IF str_truthy(pdb_id) /\ str_truthy(af_id)
            THEN [ui |-> <<"subheader:3D Structure Viewer", "write:pdb">>,
                  call |-> <<Call("rcsb", pdb_id), Call("alphafold", af_id)>>]
        ELSE IF str_truthy(pdb_id)
            THEN [ui |-> <<"subheader:3D Structure Viewer", "write:pdb">>,
                  call |-> <<Call("rcsb", pdb_id)>>]
        ELSE IF str_truthy(af_id)
            THEN [ui |-> <<"subheader:3D Structure Viewer", "write:alphafold">>,
                  call |-> <<Call("alphafold", af_id)>>]
        ELSE [ui |-> <<"subheader:3D Structure Viewer", "warning:no structure">>,
              call |-> <<>>]

\* app.py 148-163: up to the requests.get, or to the early return
display_structure_begin(d) ==
    LET pdb_id == dict_get(d, "PDB_ID")
        af_id  == dict_get(d, "AlphaFold_ID")
    IN  IF str_truthy(pdb_id)
            THEN [ui |-> <<"subheader:3D Structure Viewer", "write:pdb">>,
                  call |-> <<Call("rcsb", pdb_id)>>]
        ELSE IF str_truthy(af_id)
            THEN [ui |-> <<"subheader:3D Structure Viewer", "write:alphafold">>,
                  call |-> <<Call("alphafold", af_id)>>]
        ELSE [ui |-> <<"subheader:3D Structure Viewer", "warning:no structure">>,
              call |-> <<>>]

\* app.py 156/160 and 165-169: .text of the response, whatever its status
display_structure_end(body) == [pdb_data |-> body, ui |-> <<"viewer">>]

(***************************************************************************)
(* Inputs                                                                  *)
(***************************************************************************)
\* the longest record body of the wide corpus, in lines
MaxLines == 2

\* HTTP status codes a server answers with: success and one failure
Statuses == {200, 404}

\* the text input: empty, or an accession
Identifiers == {<<>>, <<"P">>}

\* line bodies, appended to a prefix
B_none     == <<>>
B_tokens   == <<" ", "7", " ", "a">>
B_a        == <<" ", "a">>
B_int      == <<" ", "7">>
B_semi     == <<";">>
B_semi_a   == <<";", "a">>
B_semi_b   == <<";", " ", "b", ";">>
B_fields   == <<" ", "1", " ", ";", " ", "a", " ", ";", "b">>
B_full     == <<"a", ";", "b">>
B_open     == <<"b">>

\* lines of a record body: for every recognised prefix a well-formed line and
\* the malformed ones its branch can meet, and lines with no recognised prefix
TestLines ==
    {B_none, B_tokens}
    \cup {PrefixID \o b : b \in {B_none, B_tokens}}
    \cup {PrefixSQ \o b : b \in {B_none, B_a}}
    \cup {PrefixDE \o b : b \in {B_full, B_open}}
    \cup {PrefixSUPFAM \o b : b \in {B_none, B_fields}}
    \cup {PrefixMODRES \o b : b \in {B_none, B_int, B_a, B_semi_a, B_fields}}
    \cup {PrefixCC \o b : b \in {B_none, B_tokens}}
    \cup {PrefixReactome \o b : b \in {B_none, B_semi_a}}
    \cup {PrefixMIM \o b : b \in {B_none, B_semi_b}}
    \cup {PrefixPDB \o b : b \in {B_none, B_semi, B_semi_a}}
    \cup {PrefixAlphaFoldDB \o b : b \in {B_none, B_semi, B_semi_b}}

\* the lines of the deep corpus: the lookahead and the repeated-line cases
CoreLines ==
    {B_none, B_tokens, PrefixSQ \o B_a}
    \cup {PrefixMODRES \o b : b \in {B_none, B_int, B_semi_a, B_fields}}

\* every sequence of at most n elements of S
SeqsUpTo(S, n) == UNION {[1..k -> S] : k \in 0..n}

\* a response body: its lines, each ended by a line break
RECURSIVE body_of(_)
body_of(ls) == IF ls = <<>> THEN <<>> ELSE Head(ls) \o <<"\n">> \o body_of(Tail(ls))

RecordTexts ==
    {body_of(ls) : ls \in SeqsUpTo(TestLines, MaxLines)}
    \cup {body_of(ls) : ls \in SeqsUpTo(CoreLines, MaxLines + 1)}

\* the JSON arrays the interaction service answers with
E_full  == [preferredName_A |-> <<"A">>, preferredName_B |-> <<"B">>]
E_noB   == [preferredName_A |-> <<"A">>]
E_empty == [preferredName_A |-> <<>>, preferredName_B |-> <<"B">>]

PpiBodies == {<<>>, <<E_full>>, <<E_noB, E_empty>>, <<E_noB, E_full>>}

\* the body of a structure response: the file, or the server's error page
structure_body(status) == IF status = 200 THEN "pdb file" ELSE "error page"

(***************************************************************************)
(* The script run (main: app.py 174-186, ASG01.py 111-122)                 *)
(***************************************************************************)
Init ==
    /\ variant \in {"ASG01", "app"}
    /\ pc = "idle"
    /\ uniprot_id = <<>>
    /\ text = <<>>
    /\ lines = <<>>
    /\ exc = "none"
    /\ exc_at = 0
    /\ protein_data = EmptyDict
    /\ ppi_network = <<>>
    /\ pdb_data = ""
    /\ calls = <<>>
    /\ ui = <<>>

\* the last call of cs, answered with status
answered(cs, status) ==
    [cs EXCEPT ![Len(cs)] = [@ EXCEPT !.status = status]]

\* whether main goes on to get_protein_data (app.py 179-180)
triggered(id, pressed) == pressed /\ id # <<>>

\* record_gate with the check of the returned dict left out
record_gate_always(d) == TRUE

\* whether main goes on after get_protein_data (app.py 182: if protein_data)
record_gate(d) == truthy(d)

\* Streamlit runs the script from the top, with fresh locals, on every
\* interaction: app.py 175-181 up to the requests.get of get_protein_data
Rerun(id, pressed) ==
    /\ pc \in {"idle", "done"}
    /\ uniprot_id' = id
    /\ text' = <<>>
    /\ lines' = <<>>
    /\ exc' = "none"
    /\ exc_at' = 0
    /\ protein_data' = EmptyDict
    /\ ppi_network' = <<>>
    /\ pdb_data' = ""
    /\ ui' = <<"title">>
    /\ IF triggered(id, pressed)
          THEN calls' = <<Call("uniprot", id)>> /\ pc' = "record_fetch"
          ELSE calls' = <<>> /\ pc' = "done"
    /\ UNCHANGED variant

\* the bodies a record response of this status may carry (the body of a
\* failure is never read)
record_bodies(status) == IF status = 200 THEN RecordTexts ELSE {<<>>}

\* requests.get returns in get_protein_data, which runs to its return or raise
GetProteinData ==
    /\ pc = "record_fetch"
    /\ \E status \in Statuses : \E t \in record_bodies(status) :
       \E r \in {get_protein_data(variant, uniprot_id, status, t)} :
           /\ text' = r.text
           /\ lines' = r.lines
           /\ exc' = r.exc
           /\ exc_at' = r.at
           /\ protein_data' = r.data
           /\ ui' = ui \o r.ui
           /\ calls' = answered(calls, status)
    /\ pc' = "record_return"
    /\ UNCHANGED <<variant, uniprot_id, ppi_network, pdb_data>>

\* main after get_protein_data: the exception ends the run; else the gate,
\* the characteristics, and get_ppi_network up to its requests.get (app.py) or
\* the whole rest of the run (ASG01.py)
MainAfterRecord ==
    /\ pc = "record_return"
    /\ text' = <<>>
    /\ lines' = <<>>
    /\ IF exc # "none"
          THEN /\ ui' = ui \o <<"exception">>
               /\ pc' = "done"
               /\ UNCHANGED <<calls, ppi_network>>
       ELSE IF ~record_gate(protein_data)
          THEN /\ pc' = "done"
               /\ UNCHANGED <<ui, calls, ppi_network>>
       ELSE IF variant = "ASG01"
          THEN /\ ppi_network' = get_ppi_network_ASG01
               /\ ui' = ui \o display_protein_characteristics(protein_data)
                           \o display_ppi_network_ASG01(get_ppi_network_ASG01)
               /\ pc' = "done"
               /\ UNCHANGED calls
       ELSE /\ ui' = ui \o display_protein_characteristics(protein_data)
            /\ calls' = calls \o <<Call("string", uniprot_id)>>
            /\ pc' = "ppi_fetch"
            /\ UNCHANGED ppi_network
    /\ UNCHANGED <<variant, uniprot_id, exc, exc_at, protein_data, pdb_data>>

\* requests.get returns in get_ppi_network (app.py 100-111)
GetPpiNetwork ==
    /\ pc = "ppi_fetch"
    /\ \E status \in Statuses : \E data \in PpiBodies :
       \E r \in {get_ppi_network_app(status, data)} :
           /\ ppi_network' = r.interactions
           /\ ui' = ui \o r.ui
           /\ calls' = answered(calls, status)
    /\ pc' = "ppi_return"
    /\ UNCHANGED <<variant, uniprot_id, text, lines, exc, exc_at,
                   protein_data, pdb_data>>

\* main after get_ppi_network: display_ppi_network, then display_structure
\* up to its requests.get or its early return (app.py 185-186)
MainAfterPpi ==
    /\ pc = "ppi_return"
    /\ \E s \in {display_structure_begin(protein_data)} :
           /\ ui' = ui \o display_ppi_network_app(ppi_network) \o s.ui
           /\ calls' = calls \o s.call
           /\ pc' = IF s.call = <<>> THEN "done" ELSE "structure_fetch"
    /\ UNCHANGED <<variant, uniprot_id, text, lines, exc, exc_at,
                   protein_data, ppi_network, pdb_data>>

\* requests.get returns in display_structure, which renders the viewer
DisplayStructure ==
    /\ pc = "structure_fetch"
    /\ \E status \in Statuses :
       \E r \in {display_structure_end(structure_body(status))} :
           /\ pdb_data' = r.pdb_data
           /\ ui' = ui \o r.ui
           /\ calls' = answered(calls, status)
    /\ pc' = "done"
    /\ UNCHANGED <<variant, uniprot_id, text, lines, exc, exc_at,
                   protein_data, ppi_network>>

Next ==
    \/ \E id \in Identifiers, pressed \in BOOLEAN : Rerun(id, pressed)
    \/ GetProteinData
    \/ MainAfterRecord
    \/ GetPpiNetwork
    \/ MainAfterPpi
    \/ DisplayStructure

Spec == Init /\ [][Next]_vars

(***************************************************************************)
(* Properties                                                              *)
(***************************************************************************)
Range(f) == {f[k] : k \in DOMAIN f}

\* the endpoints called so far in this run, in order
Endpoints == [k \in 1..Len(calls) |-> calls[k].endpoint]

\* the k-th call of this run has been answered, and not with 200
Failed(k) == k <= Len(calls) /\ calls[k].status \notin {0, 200}

\* the record fetch of this run has been answered with 200
RecordFetched == calls # <<>> /\ calls[1].status = 200

\* C1: when the record fetch is answered with a non-200 status, the run emits
\* the error and nothing else after the title: no characteristics, no
\* interaction fetch, no network view, no structure fetch, no viewer.
C1_RecordFailureEndsCycle ==
    Failed(1) =>
        /\ ui = <<"title", "error:uniprot">>
        /\ Len(calls) = 1
        /\ pc \in {"record_return", "done"}
        /\ protein_data = EmptyDict
        /\ ppi_network = <<>>
        /\ pdb_data = ""
        /\ exc = "none"

\* a run of either script that ended after a failed record fetch
C1_Witness == pc = "done" /\ Failed(1)

\* the element that reports a failure of the endpoint to the user
ErrorElement(endpoint) ==
    CASE endpoint = "uniprot" -> "error:uniprot"
      [] endpoint = "string" -> "error:string"
      [] OTHER -> "error:structure"

\* the element that is the sub-result of the endpoint's fetch
SubResult(endpoint) ==
    CASE endpoint = "uniprot" -> "subheader:Protein Characteristics"
      [] endpoint = "string" -> "pyplot"
      [] OTHER -> "viewer"

\* C2 (as claimed): in the second variant every fetch answered with a
\* non-success status is reported to the user and its own sub-result is not
\* produced.
C2_FailureReportedAndHalted ==
    variant = "app" =>
        \A k \in 1..Len(calls) :
            Failed(k) =>
                /\ ErrorElement(calls[k].endpoint) \in Range(ui)
                /\ SubResult(calls[k].endpoint) \notin Range(ui)

\* C2 (as claimed, the independence of the gates): a run of the second variant
\* whose record fetch failed still issues the interaction fetch.  (Fails too:
\* a failed record fetch ends the run, see C1.)
C2_SiblingsStillIssued ==
    (variant = "app" /\ pc = "done" /\ Failed(1)) => "string" \in Range(Endpoints)

\* what holds of the code: the interaction fetch is gated on its own; the
\* record fetch gates the whole run; the structure fetch is not gated at all
C2_Observed ==
    variant = "app" =>
        /\ Failed(2) => /\ "error:string" \in Range(ui)
                        /\ "pyplot" \notin Range(ui)
                        /\ pc = "done" =>
                              "subheader:3D Structure Viewer" \in Range(ui)
        /\ (Failed(3) /\ pc = "done") => /\ "viewer" \in Range(ui)
                                         /\ pdb_data = "error page"

\* C8 (as claimed): display_structure fetches from the structure database
\* whenever the record has the key PDB_ID, else from the predicted-structure
\* endpoint when it has the key AlphaFold_ID, else warns and fetches nothing.
StructureBegun == "subheader:3D Structure Viewer" \in Range(ui)

StructureOutcome(pdb, af) ==
    IF pdb
        THEN /\ Len(calls) = 3
             /\ calls[3].endpoint = "rcsb"
             /\ calls[3].arg = protein_data["PDB_ID"]
             /\ "alphafold" \notin Range(Endpoints)
             /\ "warning:no structure" \notin Range(ui)
             /\ pc = "done" => "viewer" \in Range(ui)
    ELSE IF af
        THEN /\ Len(calls) = 3
             /\ calls[3].endpoint = "alphafold"
             /\ calls[3].arg = protein_data["AlphaFold_ID"]
             /\ "rcsb" \notin Range(Endpoints)
             /\ "warning:no structure" \notin Range(ui)
             /\ pc = "done" => "viewer" \in Range(ui)
    ELSE /\ Len(calls) = 2
         /\ "warning:no structure" \in Range(ui)
         /\ "viewer" \notin Range(ui)
         /\ pc = "done"

C8_PrecedenceByKey ==
    StructureBegun =>
        StructureOutcome("PDB_ID" \in DOMAIN protein_data,
                         "AlphaFold_ID" \in DOMAIN protein_data)

\* the record has the key, with a value that is not the empty string
HasNonEmpty(d, key) == key \in DOMAIN d /\ d[key] # <<>>

\* C8 (amended): the precedence is over the non-empty identifiers: a non-empty
\* PDB_ID selects the structure database and the predicted-structure endpoint
\* is never fetched; else a non-empty AlphaFold_ID selects the predicted-
\* structure endpoint; with neither non-empty, a warning, no fetch, no viewer.
C8_PrecedenceByNonEmptyId ==
    StructureBegun =>
        StructureOutcome(HasNonEmpty(protein_data, "PDB_ID"),
                         HasNonEmpty(protein_data, "AlphaFold_ID"))

\* both identifiers are in the record and non-empty, and the run has fetched
\* the structure and rendered it
C8_Witness ==
    /\ pc = "done"
    /\ HasNonEmpty(protein_data, "PDB_ID")
    /\ HasNonEmpty(protein_data, "AlphaFold_ID")
    /\ "viewer" \in Range(ui)

\* the call sequences a run may have made
AllowedEndpoints ==
    {<<>>, <<"uniprot">>, <<"uniprot", "string">>,
     <<"uniprot", "string", "rcsb">>, <<"uniprot", "string", "alphafold">>}

\* the calls are record, interaction, structure in that order, each endpoint
\* at most once, and only the last one may be awaiting its answer: it is
\* then the call the run is blocked in
C9_Order ==
    /\ Endpoints \in AllowedEndpoints
    /\ \A k \in 1..Len(calls) : calls[k].status = 0 => k = Len(calls)
    /\ (calls # <<>> /\ calls[Len(calls)].status = 0)
           <=> pc \in {"record_fetch", "ppi_fetch", "structure_fetch"}

\* a step that starts a run leaves nothing of the run before it
C9_Fresh ==
    pc \in {"idle", "done"} =>
        /\ ui' = <<"title">>
        /\ calls' \in {<<>>, <<Call("uniprot", uniprot_id')>>}
        /\ protein_data' = EmptyDict
        /\ ppi_network' = <<>>
        /\ pdb_data' = ""
        /\ text' = <<>> /\ lines' = <<>>
        /\ exc' = "none" /\ exc_at' = 0

\* C9: a run makes at most three network calls, in the order record fetch,
\* interaction fetch, structure fetch, never two at once and none twice, and
\* a run starts from nothing the run before it wrote.
C9_SequentialCallsFreshRuns == [](C9_Order) /\ [][C9_Fresh]_vars

\* a run that made all three calls and ended
C9_Witness ==
    /\ pc = "done"
    /\ Len(calls) = 3
    /\ \A k \in 1..3 : calls[k].status # 0

(***************************************************************************)
(* Properties of get_protein_data, read where it returns: lines is the     *)
(* line sequence it scanned, protein_data the record, exc what it raised.  *)
(***************************************************************************)
AtReturn == pc = "record_return" /\ RecordFetched

Returned == AtReturn /\ exc = "none"

\* the numbers of the lines that start with prefix
LinesWith(prefix) == {j \in 1..Len(lines) : startswith(lines[j], prefix)}

HasSemi(line) == \E k \in 1..Len(line) : line[k] = ";"

\* the trimmed ;-delimited fields of the line after the first
PtmsOf(line) == strip_all(rest(split_on(line, Semi)))

HasThirdToken(line) == Len(split_ws(line)) >= 3

LengthOf(line) == int_val(split_ws(line)[3])

LastToken(line) == LET toks == split_ws(line) IN toks[Len(toks)]

\* the key is in the record with this value / is not in the record
Is(key, value) == key \in DOMAIN protein_data /\ protein_data[key] = value

Absent(key) == key \notin DOMAIN protein_data

\* C3 (as claimed): Length and PTMs are those of the last MOD_RES line alone;
\* nothing an earlier MOD_RES line supplied survives.
C3_LastLineAlone ==
    (Returned /\ LinesWith(PrefixMODRES) # {}) =>
        LET last == lines[SetMax(LinesWith(PrefixMODRES))]
        IN  /\ IF HasSemi(last) THEN Is("PTMs", PtmsOf(last)) ELSE Absent("PTMs")
            /\ IF HasThirdToken(last) THEN Is("Length", LengthOf(last))
                                      ELSE Absent("Length")

\* C3 (amended): Length is the third token of the last MOD_RES line that has
\* three tokens, PTMs the trimmed fields after the first of the last MOD_RES
\* line that holds a ";"; each is absent when no MOD_RES line supplies it.
C3_LastSupplyingLine ==
    Returned =>
        LET withSemi == {j \in LinesWith(PrefixMODRES) : HasSemi(lines[j])}
            withThird == {j \in LinesWith(PrefixMODRES) : HasThirdToken(lines[j])}
        IN  /\ IF withSemi # {}
                  THEN Is("PTMs", PtmsOf(lines[SetMax(withSemi)]))
                  ELSE Absent("PTMs")
            /\ IF withThird # {}
                  THEN Is("Length", LengthOf(lines[SetMax(withThird)]))
                  ELSE Absent("Length")

\* two MOD_RES lines with different fields after the first ";", and the record
\* holds the second line's
C3_Witness ==
    /\ Returned
    /\ \E j1, j2 \in LinesWith(PrefixMODRES) :
          /\ j1 < j2
          /\ j2 = SetMax(LinesWith(PrefixMODRES))
          /\ HasSemi(lines[j1]) /\ HasSemi(lines[j2])
          /\ PtmsOf(lines[j1]) # PtmsOf(lines[j2])
          /\ Is("PTMs", PtmsOf(lines[j2]))

\* the DR prefixes whose branch indexes the second ;-delimited field
IndexedPrefixes(v) ==
    {PrefixSUPFAM, PrefixReactome, PrefixMIM}
    \cup (IF v = "app" THEN {PrefixPDB, PrefixAlphaFoldDB} ELSE {})

\* the prefixes whose extraction rule names a ";"
DelimiterPrefixes(v) == {PrefixDE, PrefixMODRES} \cup IndexedPrefixes(v)

AfterFull(line) ==
    split_on(SubSeq(line, Len(PrefixDE) + 1, Len(line)), FullEq)[1]

SQWithNext == {j \in LinesWith(PrefixSQ) : j < Len(lines)}

\* C5: when the final line starts with SQ, its iteration raises nothing and
\* reads no line past the end, and it sets no Weight: the record has Weight
\* only from an earlier SQ line, with that line's value.
C5_FinalSQLine ==
    (AtReturn /\ lines # <<>> /\ startswith(lines[Len(lines)], PrefixSQ)) =>
        /\ exc_at # Len(lines)
        /\ exc = "none" =>
              IF SQWithNext = {} THEN Absent("Weight")
              ELSE Is("Weight", LastToken(lines[SetMax(SQWithNext) + 1]))

\* a record returned for a body whose only SQ line is its final line
C5_Witness ==
    /\ Returned
    /\ lines # <<>>
    /\ LinesWith(PrefixSQ) = {Len(lines)}
    /\ Absent("Weight")

\* the trigger prefix of each field other than ID
Trigger(key) ==
    CASE key = "Name" -> PrefixID
      [] key = "Weight" -> PrefixSQ
      [] key = "Function" -> PrefixDE
      [] key = "Structure" -> PrefixSUPFAM
      [] key = "Length" -> PrefixMODRES
      [] key = "PTMs" -> PrefixMODRES
      [] key = "Subcellular Location" -> PrefixCC
      [] key = "Pathway" -> PrefixReactome
      [] key = "Disease" -> PrefixMIM
      [] key = "PDB_ID" -> PrefixPDB
      [] key = "AlphaFold_ID" -> PrefixAlphaFoldDB

SharedKeys ==
    {"Name", "Weight", "Function", "Structure", "Length", "PTMs",
     "Subcellular Location", "Pathway", "Disease"}

FieldKeys(v) ==
    SharedKeys \cup (IF v = "app" THEN {"PDB_ID", "AlphaFold_ID"} ELSE {})

\* C6: a returned record holds ID, the caller's identifier, and besides it
\* only keys of fields whose trigger prefix starts some line; when no line
\* starts with a recognised prefix the record is exactly {ID: identifier}.
C6_KeysOnlyFromLines ==
    Returned =>
        /\ Is("ID", uniprot_id)
        /\ \A key \in (DOMAIN protein_data) \ {"ID"} :
              /\ key \in FieldKeys(variant)
              /\ LinesWith(Trigger(key)) # {}
        /\ (\A key \in FieldKeys(variant) : LinesWith(Trigger(key)) = {})
              => protein_data = [x \in {"ID"} |-> uniprot_id]

\* a record returned for a non-empty body none of whose lines is recognised
C6_Witness ==
    /\ Returned
    /\ \E j \in 1..Len(lines) : split_ws(lines[j]) # <<>>
    /\ \A key \in FieldKeys(variant) : LinesWith(Trigger(key)) = {}
    /\ DOMAIN protein_data = {"ID"}

OtherVariant == IF variant = "app" THEN "ASG01" ELSE "app"

StructureKeys == {"PDB_ID", "AlphaFold_ID"}

\* C10: on a body for which both scripts' get_protein_data return a record,
\* the first variant's record is the second variant's without PDB_ID and
\* AlphaFold_ID.
C10_VariantsAgree ==
    Returned =>
        LET other == extract(OtherVariant, uniprot_id, lines)
        IN  other.exc = "none" =>
               /\ without(protein_data, StructureKeys)
                     = without(other.data, StructureKeys)
               /\ variant = "ASG01" => DOMAIN protein_data \cap StructureKeys = {}
               /\ variant = "app" => DOMAIN other.data \cap StructureKeys = {}

\* the second variant returns a record with PDB_ID and a shared field, for a
\* body the first variant returns a record for too
C10_Witness ==
    /\ Returned
    /\ variant = "app"
    /\ extract("ASG01", uniprot_id, lines).exc = "none"
    /\ "PDB_ID" \in DOMAIN protein_data
    /\ DOMAIN protein_data \cap SharedKeys # {}

=============================================================================
